---- MODULE Spec2Model ----
(***************************************************************************)
(* Model of gcolab_pkg: the notebook helpers of src/main.py (q,            *)
(* send_gchat) and the formatting helpers of src/packages/util.py          *)
(* (string_to_number, number_to_short_string, condense_text, back_ticks).  *)
(*                                                                         *)
(* One behaviour is one call.  Init draws the call (the function and its   *)
(* arguments); the actions are the steps of the called function and, for   *)
(* q and send_gchat, the answers of the external services.                 *)
(*                                                                         *)
(* Strings are sequences of one-character strings.  A number is a decimal  *)
(* fixed-point record [num, exp] standing for num * 10^(-exp).             *)
(***************************************************************************)
EXTENDS Integers, Sequences, FiniteSets, TLC

VARIABLES
    call,      \* the invocation: the function called and its arguments
    pc,        \* position of the call in the function's code
    job,       \* q: the QueryJob held by the query service
    polls,     \* q: number of done() calls that returned false
    slept,     \* q: total time slept, in tenths of a second
    doneSeen,  \* q: a done() call has returned true
    display,   \* q: the text of the dynamic status line
    printed,   \* q: the sequence of things printed by cprint
    x,         \* number functions: the local x
    stn,       \* string_to_number: argument and depth of the current frame
    footer,    \* send_gchat: the local footer
    posts,     \* send_gchat: the POST requests sent
    response,  \* send_gchat: the response of the webhook
    outcome    \* how the call ended: none yet, returned a value, or raised

vars == <<call, pc, job, polls, slept, doneSeen, display, printed, x, stn,
          footer, posts, response, outcome>>

\* ------------------------------------------------------------------ bounds

MaxQueryLines == 18
MaxLineRef == 19
MaxColRef == 5
MaxPolls == 2
MaxNumStrLen == 3
MaxTickLen == 6
MaxTextLen == 4
MaxLimit == 3
MaxMantissa == 12
RecursionLimit == 3

\* ------------------------------------------------------- program constants

SleepTenths == 5
WindowBefore == 5
WindowAfter == 6
Thousand == 1000
Million == 1000000
SigFigs == 3
BadRequest == 400

\* ------------------------------------------------------------- characters

NL == "\n"
Digits == <<"0", "1", "2", "3", "4", "5", "6", "7", "8", "9">>

IsDigit(c) == \E d \in 1..10 : Digits[d] = c

DigitVal(c) == (CHOOSE d \in 1..10 : Digits[d] = c) - 1

IsSpace(c) == c \in {" ", NL, "\t"}

None == [tag |-> "none"]

Max(a, b) == IF a >= b THEN a ELSE b

Min(a, b) == IF a <= b THEN a ELSE b

Abs(a) == IF a < 0 THEN 0 - a ELSE a

RECURSIVE Pow10(_)
Pow10(e) == IF e <= 0 THEN 1 ELSE 10 * Pow10(e - 1)

\* the value of the first n characters of s, a run of decimal digits
RECURSIVE IntOfFirst(_, _)
IntOfFirst(s, n) ==
    IF n = 0 THEN 0 ELSE 10 * IntOfFirst(s, n - 1) + DigitVal(s[n])

\* int(s) of a run of decimal digits
IntOf(s) == IntOfFirst(s, Len(s))

\* the number of decimal digits of a natural number: len(str(n))
DigitCount(n) ==
    CHOOSE d \in 1..10 :
        /\ d > 1 => n >= Pow10(d - 1)
        /\ d < 10 => n < Pow10(d)

\* str(n) of a natural number
StrOfNat(n) ==
    [i \in 1..DigitCount(n) |->
        Digits[((n \div Pow10(DigitCount(n) - i)) % 10) + 1]]

\* sep.join(parts), from part i on
RECURSIVE JoinFrom(_, _, _)
JoinFrom(parts, sep, i) ==
    IF i > Len(parts) THEN <<>>
    ELSE IF i = Len(parts) THEN parts[i]
    ELSE parts[i] \o sep \o JoinFrom(parts, sep, i + 1)

\* sep.join(parts)
Join(parts, sep) == JoinFrom(parts, sep, 1)

\* the k-th smallest element of the set P of positions (0 for k = 0)
Nth(P, k) ==
    IF k = 0 THEN 0
    ELSE CHOOSE p \in P : Cardinality({q \in P : q <= p}) = k

\* the pieces of s cut at the positions P of the separator
Pieces(s, P) ==
    [j \in 1..(Cardinality(P) + 1) |->
        SubSeq(s, Nth(P, j - 1) + 1,
               IF j > Cardinality(P) THEN Len(s) ELSE Nth(P, j) - 1)]

\* s.split(c): the pieces of s between the occurrences of character c
\* (the set of positions is bound to its value once)
Split(s, c) ==
    CHOOSE r \in {Pieces(s, P) : P \in {{p \in 1..Len(s) : s[p] = c}}} : TRUE

\* Python's s[lo:hi] with a negative bound counted from the end
PyIndex(n, i) == IF i < 0 THEN Max(n + i, 0) ELSE Min(i, n)

PySlice(s, lo, hi) == SubSeq(s, PyIndex(Len(s), lo) + 1, PyIndex(Len(s), hi))

PySliceTo(s, hi) == PySlice(s, 0, hi)

PySliceFrom(s, lo) == PySlice(s, lo, Len(s))

\* all strings over alphabet A of length at most n
StringsUpTo(A, n) == UNION {[1..m -> A] : m \in 0..n}

\* ---------------------------------------------------------------------- q
\* src/main.py, q(query)

Table(id) == [tag |-> "table", id |-> id]

DmlStats(n) == [tag |-> "dml", rows |-> n]

DataFrame(id) == [tag |-> "dataframe", id |-> id]

\* the text of a query of n lines; line i holds i % 7 characters
QueryLine(i) == SubSeq(<<"a", "b", "c", "d", "e", "f">>, 1, i % 7)

QueryText(n) == Join([i \in 1..n |-> QueryLine(i)], <<NL>>)

Queries == {QueryText(n) : n \in 0..MaxQueryLines}

\* error messages of the service, with and without a "[line:column]" place
LocMsg(l, c) ==
    <<"E", "[">> \o StrOfNat(l) \o <<":">> \o StrOfNat(c) \o <<"]", "!">>

PlainMsgs ==
    {<<"E">>, <<"[", "1", ":", "]">>, <<"[", "x", ":", "2", "]">>,
     <<"1", ":", "2">>}

FirstMsgs ==
    {LocMsg(l, c) : l \in 0..MaxLineRef, c \in 0..MaxColRef} \cup PlainMsgs

MoreMsgs == {LocMsg(1, 1)}

ErrorLists ==
    {<<m>> : m \in FirstMsgs} \cup {<<m, r>> : m \in FirstMsgs, r \in MoreMsgs}

BriefErrorLists ==
    {<<<<"E">>>>, <<LocMsg(12, 5)>>, <<LocMsg(1, 1), <<"E">>>>,
     <<<<"E">>, LocMsg(1, 1)>>}

Error(m) == [message |-> m]

\* a job as Client.query returns it: submitted, not done
NewJob ==
    [job_id |-> "job", done |-> FALSE, errors |-> <<>>, destination |-> None,
     ddl_target_table |-> None, dml_stats |-> None, rows |-> None]

NoJob == [NewJob EXCEPT !.job_id = "none"]

\* the last index of the run of digits of s that starts at i (i - 1: no digit)
RunEnd(s, i) ==
    CHOOSE j \in (i - 1)..Len(s) :
        /\ \A k \in i..j : IsDigit(s[k])
        /\ (j < Len(s) => ~IsDigit(s[j + 1]))

\* r"\[(\d+):(\d+)\]" matched at position i of s
MatchesAt(s, i) ==
    /\ s[i] = "["
    /\ LET a == RunEnd(s, i + 1)
       IN  /\ a >= i + 1
           /\ a + 1 <= Len(s)
           /\ s[a + 1] = ":"
           /\ LET b == RunEnd(s, a + 2)
              IN  /\ b >= a + 2
                  /\ b + 1 <= Len(s)
                  /\ s[b + 1] = "]"

\* re.search(r"\[(\d+):(\d+)\]", s): None, or the groups of the first match
ReSearch(s) ==
    IF \A i \in 1..Len(s) : ~MatchesAt(s, i) THEN None
    ELSE LET i == CHOOSE k \in 1..Len(s) :
                      MatchesAt(s, k) /\ \A m \in 1..(k - 1) : ~MatchesAt(s, m)
             a == RunEnd(s, i + 1)
             b == RunEnd(s, a + 2)
         IN  [tag |-> "match", ln |-> IntOf(SubSeq(s, i + 1, a)),
              pn |-> IntOf(SubSeq(s, a + 2, b))]

\* mutant: only the first message is kept
ErrorMessagesFirstOnly(errors) == errors[1].message

\* "\n".join([error["message"] for error in result.errors])
ErrorMessages(errors) ==
    Join([i \in 1..Len(errors) |-> errors[i].message], <<NL>>)

\* mutant: the window closed one line too late
InWindowOffByOne(i, ln) ==
    i + 1 >= ln - WindowBefore /\ i + 1 <= ln + WindowAfter

\* the condition of line 66 on the 0-based index i
InWindow(i, ln) == i + 1 >= ln - WindowBefore /\ i + 1 < ln + WindowAfter

\* what cprint is given for line i (0-based) of the query
ExcerptLine(i, line, ln, pn) ==
    IF i + 1 = ln
    THEN [kind |-> "excerpt", no |-> i + 1, split |-> TRUE,
          plain |-> PySliceTo(line, pn - 1), red |-> PySliceFrom(line, pn - 1)]
    ELSE [kind |-> "excerpt", no |-> i + 1, split |-> FALSE,
          plain |-> line, red |-> <<>>]

\* the loop of lines 65-73 from index i on
RECURSIVE ExcerptFrom(_, _, _, _)
ExcerptFrom(lines, i, ln, pn) ==
    IF i >= Len(lines) THEN <<>>
    ELSE (IF InWindow(i, ln)
          THEN <<ExcerptLine(i, lines[i + 1], ln, pn)>>
          ELSE <<>>) \o ExcerptFrom(lines, i + 1, ln, pn)

\* lines 62-73 (the lines and the match are bound to their values once)
Excerpt(query, errors) ==
    LET match == ReSearch(errors[1].message)
    IN  IF match.tag = "match"
        THEN CHOOSE r \in {ExcerptFrom(lines, 0, m.ln, m.pn) :
                              lines \in {Split(query, NL)}, m \in {match}} : TRUE
        ELSE <<>>

\* mutant: the job's destination whenever there is one
DestinationFirst(result) ==
    IF result.destination.tag = "none"
    THEN result.ddl_target_table
    ELSE result.destination

\* lines 76-80
Destination(result) ==
    IF result.ddl_target_table.tag = "none"
    THEN result.destination
    ELSE result.ddl_target_table

\* mutant: the loop gives up without waiting for done()
LoopExitsAtOnce(result) == TRUE

\* the condition that ends the loop of line 50
LoopExits(result) == result.done

\* time.sleep(0.5), whatever the number n of sleeps so far
SleepDuration(n) == SleepTenths

QCalls == {[fn |-> "q", query |-> t] : t \in Queries}

QSubmit ==
    /\ pc = "q_submit"
    /\ job' = NewJob
    /\ printed' = <<[kind |-> "job_id", text |-> NewJob.job_id]>>
    /\ display' = "Query starting"
    /\ pc' = "q_poll"
    /\ UNCHANGED <<call, polls, slept, doneSeen, x, stn, footer, posts, response, outcome>>

\* the query service finishes the job, with errors (one of errorLists) or
\* with a result
JobCompletesWith(errorLists) ==
    /\ pc \in {"q_poll", "q_sleep"}
    /\ ~job.done
    /\ \/ \E errs \in errorLists :
              job' = [job EXCEPT !.done = TRUE,
                                 !.errors = [i \in 1..Len(errs) |-> Error(errs[i])]]
       \/ \E dest \in {None, Table("dest")}, ddl \in {None, Table("ddl")},
             stats \in {None, DmlStats(1)}, rows \in {DataFrame(0), DataFrame(1)} :
              job' = [job EXCEPT !.done = TRUE, !.destination = dest,
                                 !.ddl_target_table = ddl, !.dml_stats = stats,
                                 !.rows = rows]
    /\ UNCHANGED <<call, pc, polls, slept, doneSeen, display, printed, x, x, stn,
                   footer, posts, response, outcome>>

JobCompletes == JobCompletesWith(ErrorLists)

\* the same, the service's errors drawn from a few representative lists
JobCompletesBriefly == JobCompletesWith(BriefErrorLists)

QPollRunning ==
    /\ pc = "q_poll"
    /\ ~LoopExits(job)
    /\ display' = "Query running"
    /\ pc' = "q_sleep"
    /\ UNCHANGED <<call, job, polls, slept, doneSeen, printed, x, stn, footer, posts,
                   response, outcome>>

QSleep ==
    /\ pc = "q_sleep"
    /\ IF polls < MaxPolls
       THEN polls' = polls + 1 /\ slept' = slept + SleepDuration(polls)
       ELSE UNCHANGED <<polls, slept>>
    /\ pc' = "q_poll"
    /\ UNCHANGED <<call, job, doneSeen, display, printed, x, stn, footer, posts, response,
                   outcome>>

QPollDone ==
    /\ pc = "q_poll"
    /\ LoopExits(job)
    /\ doneSeen' = job.done
    /\ display' = "Query finished"
    /\ pc' = "q_finished"
    /\ UNCHANGED <<call, job, polls, slept, printed, x, stn, footer, posts, response,
                   outcome>>

QFail ==
    /\ pc = "q_finished"
    /\ job.errors # <<>>
    /\ printed' = printed
                    \o <<[kind |-> "failed", text |-> ErrorMessages(job.errors)]>>
                    \o Excerpt(call.query, job.errors)
    /\ outcome' = [kind |-> "raised", type |-> "Exception",
                   value |-> ErrorMessages(job.errors)]
    /\ pc' = "end"
    /\ UNCHANGED <<call, job, polls, slept, doneSeen, display, x, stn, footer, posts,
                   response>>

QSucceed ==
    /\ pc = "q_finished"
    /\ job.errors = <<>>
    /\ printed' = printed
                    \o <<[kind |-> "destination", table |-> Destination(job)]>>
                    \o (IF job.dml_stats.tag = "none" THEN <<>>
                        ELSE <<[kind |-> "dml", stats |-> job.dml_stats]>>)
    /\ outcome' = [kind |-> "returned", value |-> job.rows]
    /\ pc' = "end"
    /\ UNCHANGED <<call, job, polls, slept, doneSeen, display, x, stn, footer, posts,
                   response>>

QStep == QSubmit \/ QPollRunning \/ QSleep \/ QPollDone \/ QFail \/ QSucceed

\* -------------------------------------------------------------- numbers
\* src/packages/util.py, string_to_number and number_to_short_string

\* the number n * 10^(-e)
Num(n, e) == [tag |-> "num", num |-> n, exp |-> e]

NaN == [tag |-> "nan"]

Str(t) == [tag |-> "str", s |-> t]

\* a number without trailing decimal zeros
RECURSIVE NormNum(_, _)
NormNum(n, e) ==
    IF e > 0 /\ n % 10 = 0 THEN NormNum(n \div 10, e - 1) ELSE Num(n, e)

\* int(abs(v))
IntPart(v) == Abs(v.num) \div Pow10(v.exp)

\* abs(v) >= t, for an integer t >= 1
AtLeast(v, t) == IntPart(v) >= t

\* v / 10^k
Shrink(v, k) == Num(v.num, v.exp + k)

\* v * 100
Times100(v) ==
    IF v.exp >= 2 THEN Num(v.num, v.exp - 2)
    ELSE Num(v.num * Pow10(2 - v.exp), 0)

\* a / b rounded to the nearest integer, ties to even (a >= 0, b > 0)
\* Values are exact decimals here, so a tie rounds to even; the binary float
\* nearest to a decimal tie may fall on either side of it (0.0005 -> 0.1%).
RoundHalfEven(a, b) ==
    IF 2 * (a % b) > b \/ (2 * (a % b) = b /\ (a \div b) % 2 = 1)
    THEN (a \div b) + 1
    ELSE a \div b

\* n written with exactly d digits
ZeroPad(n, d) == [i \in 1..d |-> Digits[((n \div Pow10(d - i)) % 10) + 1]]

\* a natural number written with thousands separators
RECURSIVE Group(_)
Group(n) ==
    IF n < Thousand THEN StrOfNat(n)
    ELSE Group(n \div Thousand) \o <<",">> \o ZeroPad(n % Thousand, 3)

\* f"{v:,.{d}f}" for d >= 0
FormatFixed(v, d) ==
    LET scaled == IF d >= v.exp THEN Abs(v.num) * Pow10(d - v.exp)
                  ELSE RoundHalfEven(Abs(v.num), Pow10(v.exp - d))
    IN  (IF v.num < 0 THEN <<"-">> ELSE <<>>)
            \o Group(scaled \div Pow10(d))
            \o (IF d > 0 THEN <<".">> \o ZeroPad(scaled % Pow10(d), d) ELSE <<>>)

\* int(log10(abs(v)) * -1 + 3) for 0 < abs(v) < 1
SmallDecimals(v) ==
    LET d == DigitCount(Abs(v.num))
    IN  IF Abs(v.num) = Pow10(d - 1) THEN v.exp - d + 4 ELSE v.exp - d + 3

\* mutant: the thousands suffix for every scaled value
UnitAlwaysK(v) == IF AtLeast(v, Thousand) THEN <<"k">> ELSE <<>>

\* the suffix chosen by lines 168-176
Unit(v) ==
    IF AtLeast(v, Million) THEN <<"m">>
    ELSE IF AtLeast(v, Thousand) THEN <<"k">>
    ELSE <<>>

\* the scaled magnitude n of lines 168-176
Scaled(v) ==
    IF AtLeast(v, Million) THEN Shrink(v, 6)
    ELSE IF AtLeast(v, Thousand) THEN Shrink(v, 3)
    ELSE v

\* lines 158-185, for a number v
ShortString(v, has_percent, add_plus_sign) ==
    LET plus_sign == IF add_plus_sign /\ v.num > 0 THEN <<"+">> ELSE <<>>
        decimals == SigFigs - DigitCount(IntPart(Scaled(v)))
    IN  IF v.num = 0 THEN <<"0">>
        ELSE IF ~AtLeast(v, 1)
        THEN (IF has_percent
              THEN plus_sign \o FormatFixed(Times100(v), 1) \o <<"%">>
              ELSE plus_sign \o FormatFixed(v, SmallDecimals(v)))
        ELSE IF decimals >= 0
        THEN plus_sign \o FormatFixed(Scaled(v), decimals) \o Unit(v)
        ELSE plus_sign \o FormatFixed(v, 0)

\* s.lstrip("-")
LStripDash(s) ==
    SubSeq(s, 1 + Cardinality({i \in 1..Len(s) : \A j \in 1..i : s[j] = "-"}),
           Len(s))

\* s.replace(c, ""): every occurrence of character c removed
Remove(s, c) == SelectSeq(s, LAMBDA ch : ch # c)

\* s.replace(".", "", 1): the first dot removed
RemoveFirstDot(s) ==
    IF \A i \in 1..Len(s) : s[i] # "." THEN s
    ELSE LET i == CHOOSE k \in 1..Len(s) :
                      s[k] = "." /\ \A m \in 1..(k - 1) : s[m] # "."
         IN  SubSeq(s, 1, i - 1) \o SubSeq(s, i + 1, Len(s))

\* s.isdigit()
IsDigitStr(s) == s # <<>> /\ \A i \in 1..Len(s) : IsDigit(s[i])

\* the test of line 60 on y = str(x).replace(",", "")
NumericLooking(y) == IsDigitStr(RemoveFirstDot(LStripDash(y)))

\* float(y) succeeds, for a y that passes the test of line 60: at most one sign
FloatParses(y) == Len(y) - Len(LStripDash(y)) <= 1

\* float(y), for a y that float() parses
FloatOf(y) ==
    LET body == LStripDash(y)
        digs == Remove(body, ".")
        dot == IF \A i \in 1..Len(body) : body[i] # "." THEN Len(body)
               ELSE CHOOSE k \in 1..Len(body) : body[k] = "."
        mag == IntOf(digs)
    IN  NormNum(IF Len(y) > Len(body) THEN 0 - mag ELSE mag, Len(body) - dot)

\* re.sub(r"[^\\d.-]+", "", s): in the raw string the class holds a backslash,
\* the letter d, the dot and the dash, and every other character is removed
StripForce(s) == SelectSeq(s, LAMBDA ch : ch \in {"\\", "d", ".", "-"})

NumStrings ==
    StringsUpTo({"1", "2", ",", ".", "-", "a", "d", "\\"}, MaxNumStrLen)
        \cup {<<"1", ",", "2", "3", "4">>, <<"a", "1", "2", "3", "4", "b">>,
              <<"-", "-", "1", "2", ".", "5">>}

\* m * 10^e, 10^e - 1 and m / 10^e, within 32 bits, and their negatives
NumValues ==
    LET big == {Num(m * Pow10(e), 0) : m \in 1..2, e \in 0..9}
        mid == {Num(m * Pow10(e), 0) : m \in 3..MaxMantissa, e \in 0..7}
        nines == {Num(Pow10(e) - 1, 0) : e \in 1..9}
        small == {NormNum(m, e) : m \in 1..MaxMantissa, e \in 1..4}
        mixed == {Num(1234567890, 0), Num(999999, 3), Num(9995, 1)}
        pos == big \cup mid \cup nines \cup small \cup mixed
    IN  pos \cup {Num(0 - v.num, v.exp) : v \in pos} \cup {Num(0, 0)}

StnCalls ==
    {[fn |-> "string_to_number", x |-> v, force |-> f] :
        v \in {None, NaN, Num(0, 0), Num(15, 1), Num(0 - 3, 0)}
                \cup {Str(t) : t \in NumStrings},
        f \in BOOLEAN}

NtsCalls ==
    {[fn |-> "number_to_short_string", x |-> v, has_percent |-> hp,
      add_plus_sign |-> ps, force |-> f] :
        v \in {None, NaN} \cup NumValues, hp \in BOOLEAN, ps \in BOOLEAN,
        f \in {FALSE}}
    \cup
    {[fn |-> "number_to_short_string", x |-> Str(t), has_percent |-> TRUE,
      add_plus_sign |-> FALSE, force |-> f] :
        t \in NumStrings, f \in BOOLEAN}

DagError == [kind |-> "raised", type |-> "DagError", value |-> <<>>]

Returned(v) == [kind |-> "returned", value |-> v]

\* string_to_number returns v: to the caller of the outermost frame
StnReturn(v) ==
    IF call.fn = "string_to_number"
    THEN outcome' = Returned(v) /\ pc' = "end" /\ UNCHANGED x
    ELSE x' = v /\ pc' = "nts_format" /\ UNCHANGED outcome

\* lines 55-58: a missing value is 0.0, a number is itself
StnEnter ==
    /\ pc = "stn_start"
    /\ IF x.tag \in {"none", "nan"}
       THEN StnReturn(Num(0, 0)) /\ UNCHANGED stn
       ELSE IF x.tag = "num"
       THEN StnReturn(x) /\ UNCHANGED stn
       ELSE /\ stn' = [arg |-> x.s, depth |-> 1]
            /\ pc' = "stn_body"
            /\ UNCHANGED <<x, outcome>>
    /\ UNCHANGED <<call, job, polls, slept, doneSeen, display, printed, footer, posts,
                   response>>

\* lines 60-61 and 69-72: float(y), a ValueError of float() raised as DagError
StnNumeric ==
    /\ pc = "stn_body"
    /\ NumericLooking(Remove(stn.arg, ","))
    /\ IF FloatParses(Remove(stn.arg, ","))
       THEN StnReturn(FloatOf(Remove(stn.arg, ",")))
       ELSE outcome' = DagError /\ pc' = "end" /\ UNCHANGED x
    /\ UNCHANGED <<call, job, polls, slept, doneSeen, display, printed, stn,
                   footer, posts, response>>

\* lines 62-64: strip and call again; past the interpreter's recursion limit
\* the call raises RecursionError, which every frame raises on as DagError
StnForce ==
    /\ pc = "stn_body"
    /\ ~NumericLooking(Remove(stn.arg, ","))
    /\ call.force
    /\ IF stn.depth < RecursionLimit
       THEN /\ stn' = [arg |-> StripForce(stn.arg), depth |-> stn.depth + 1]
            /\ UNCHANGED <<pc, outcome>>
       ELSE outcome' = DagError /\ pc' = "end" /\ UNCHANGED stn
    /\ UNCHANGED <<call, x, job, polls, slept, doneSeen, display, printed,
                   footer, posts, response>>

\* lines 65-72: ValueError, raised as DagError
StnReject ==
    /\ pc = "stn_body"
    /\ ~NumericLooking(Remove(stn.arg, ","))
    /\ ~call.force
    /\ outcome' = DagError
    /\ pc' = "end"
    /\ UNCHANGED <<call, x, job, polls, slept, doneSeen, display, printed, stn,
                   footer, posts, response>>

\* lines 148-151: a string goes through string_to_number, a missing value is ""
NtsStart ==
    /\ pc = "nts_start"
    /\ IF x.tag = "str"
       THEN /\ stn' = [arg |-> x.s, depth |-> 1]
            /\ pc' = "stn_body"
            /\ UNCHANGED outcome
       ELSE IF x.tag \in {"none", "nan"}
       THEN outcome' = Returned(<<>>) /\ pc' = "end" /\ UNCHANGED stn
       ELSE pc' = "nts_format" /\ UNCHANGED <<stn, outcome>>
    /\ UNCHANGED <<call, x, job, polls, slept, doneSeen, display, printed,
                   footer, posts, response>>

\* lines 153-185
NtsFormat ==
    /\ pc = "nts_format"
    /\ outcome' = Returned(ShortString(x, call.has_percent, call.add_plus_sign))
    /\ pc' = "end"
    /\ UNCHANGED <<call, x, job, polls, slept, doneSeen, display, printed, stn,
                   footer, posts, response>>

\* ------------------------------------------------------------------ text
\* src/packages/util.py, condense_text and back_ticks

\* the last index of the run of whitespace of s that starts at i
SpaceRunEnd(s, i) ==
    CHOOSE j \in i..Len(s) :
        /\ \A k \in i..j : IsSpace(s[k])
        /\ (j < Len(s) => ~IsSpace(s[j + 1]))

\* re.sub(r"\s*\n+\s*", " | ", s) from index i on: a match starts at the
\* first character of a run of whitespace that holds a newline and takes
\* the whole run
RECURSIVE SubNewlinesFrom(_, _)
SubNewlinesFrom(s, i) ==
    IF i > Len(s) THEN <<>>
    ELSE IF ~IsSpace(s[i]) THEN <<s[i]>> \o SubNewlinesFrom(s, i + 1)
    ELSE IF \E k \in i..SpaceRunEnd(s, i) : s[k] = NL
    THEN <<" ", "|", " ">> \o SubNewlinesFrom(s, SpaceRunEnd(s, i) + 1)
    ELSE SubSeq(s, i, SpaceRunEnd(s, i)) \o SubNewlinesFrom(s, SpaceRunEnd(s, i) + 1)

\* re.sub(r"\s+", " ", s) from index i on
RECURSIVE SubSpacesFrom(_, _)
SubSpacesFrom(s, i) ==
    IF i > Len(s) THEN <<>>
    ELSE IF ~IsSpace(s[i]) THEN <<s[i]>> \o SubSpacesFrom(s, i + 1)
    ELSE <<" ">> \o SubSpacesFrom(s, SpaceRunEnd(s, i) + 1)

\* s.strip()
Strip(s) ==
    IF \A i \in 1..Len(s) : IsSpace(s[i]) THEN <<>>
    ELSE SubSeq(s, CHOOSE i \in 1..Len(s) :
                       ~IsSpace(s[i]) /\ \A k \in 1..(i - 1) : IsSpace(s[k]),
                   CHOOSE j \in 1..Len(s) :
                       ~IsSpace(s[j]) /\ \A k \in (j + 1)..Len(s) : IsSpace(s[k]))

\* lines 270-272
Condensed(text) ==
    LET str == IF text = None THEN <<"(", "N", "o", "n", "e", ")">> ELSE text.s
    IN  Strip(SubSpacesFrom(Strip(SubNewlinesFrom(str, 1)), 1))

\* mutant: the ellipsis only when something is cut off
TruncatedIfLonger(s, limit) ==
    IF Len(s) > limit THEN SubSeq(s, 1, limit) \o <<".", ".", ".">> ELSE s

\* line 273, re.sub(rf"(.{{{limit}}}).*", r"\1...", s) for an s without
\* newlines: a match needs limit characters, and takes s to its end
Truncated(s, limit) ==
    IF Len(s) >= limit THEN SubSeq(s, 1, limit) \o <<".", ".", ".">> ELSE s

\* lines 269-274
CondenseText(text, limit) == Truncated(Condensed(text), limit)

\* the backquote character (a TLA+ string cannot hold it)
Tick == "BACKQUOTE"

\* re.sub of three backquotes by "B B B" (B the backquote) from index i on:
\* the matches do not overlap
RECURSIVE SubTicksFrom(_, _)
SubTicksFrom(s, i) ==
    IF i > Len(s) THEN <<>>
    ELSE IF i + 2 <= Len(s) /\ \A k \in i..(i + 2) : s[k] = Tick
    THEN <<Tick, " ", Tick, " ", Tick>> \o SubTicksFrom(s, i + 3)
    ELSE <<s[i]>> \o SubTicksFrom(s, i + 1)

Fence == <<Tick, Tick, Tick>>

\* lines 300-302
BackTicksOf(text) == Fence \o <<NL>> \o SubTicksFrom(text, 1) \o <<NL>> \o Fence

CondenseCalls ==
    {[fn |-> "condense_text", text |-> t, limit |-> n] :
        t \in {None} \cup {Str(u) : u \in StringsUpTo({"a", " ", NL}, MaxTextLen)},
        n \in 1..MaxLimit}

BackTicksCalls ==
    {[fn |-> "back_ticks", text |-> t] : t \in StringsUpTo({Tick, "a"}, MaxTickLen)}

condense_text ==
    /\ pc = "condense_text"
    /\ outcome' = Returned(CondenseText(call.text, call.limit))
    /\ pc' = "end"
    /\ UNCHANGED <<call, job, polls, slept, doneSeen, display, printed, x, stn,
                   footer, posts, response>>

back_ticks ==
    /\ pc = "back_ticks"
    /\ outcome' = Returned(BackTicksOf(call.text))
    /\ pc' = "end"
    /\ UNCHANGED <<call, job, polls, slept, doneSeen, display, printed, x, stn,
                   footer, posts, response>>

\* ------------------------------------------------------------- send_gchat
\* src/main.py, send_gchat and get_user_email

GchatCalls ==
    {[fn |-> "send_gchat", message |-> m, webhook |-> "webhook", footer |-> f] :
        m \in {<<"h", "i">>, <<>>}, f \in {None, Str(<<"f">>)}}

Statuses == {200, 204, 302, 400, 401, 404, 500}

Bodies == {<<>>, <<"o", "k">>, <<"{", "e", "}">>}

\* mutant: every client or server error status is a failure
IsFailureFrom400(status_code) == status_code >= BadRequest

\* the test of line 108
IsFailure(status_code) == status_code = BadRequest

\* lines 102-104: a missing footer is made from the user's email
GchatStart ==
    /\ pc = "gchat_start"
    /\ IF call.footer = None
       THEN pc' = "gchat_email" /\ UNCHANGED footer
       ELSE pc' = "gchat_post" /\ footer' = call.footer.s
    /\ UNCHANGED <<call, job, polls, slept, doneSeen, display, printed, x, stn,
                   posts, response, outcome>>

\* get_user_email (lines 119-124) answers, and line 104 builds the footer
GetUserEmail ==
    /\ pc = "gchat_email"
    /\ footer' = <<"Sent by ", "user@example.com", " on ", "now">>
    /\ pc' = "gchat_post"
    /\ UNCHANGED <<call, job, polls, slept, doneSeen, display, printed, x, stn,
                   posts, response, outcome>>

\* get_user_email raises: gcloud or the token lookup fails
GetUserEmailFails ==
    /\ pc = "gchat_email"
    /\ outcome' = [kind |-> "raised", type |-> "lookup", value |-> <<>>]
    /\ pc' = "end"
    /\ UNCHANGED <<call, job, polls, slept, doneSeen, display, printed, x, stn,
                   footer, posts, response>>

\* lines 105-107: the POST, answered by the webhook with a status and a body
GchatPost ==
    /\ pc = "gchat_post"
    /\ posts' = Append(posts, [url |-> call.webhook,
                               text |-> call.message \o <<NL, NL>> \o footer])
    /\ \E status \in Statuses, body \in Bodies :
           response' = [status_code |-> status, text |-> body]
    /\ pc' = "gchat_check"
    /\ UNCHANGED <<call, job, polls, slept, doneSeen, display, printed, x, stn,
                   footer, outcome>>

\* line 107: requests.post raises, no response comes back
GchatPostFails ==
    /\ pc = "gchat_post"
    /\ posts' = Append(posts, [url |-> call.webhook,
                               text |-> call.message \o <<NL, NL>> \o footer])
    /\ outcome' = [kind |-> "raised", type |-> "requests", value |-> <<>>]
    /\ pc' = "end"
    /\ UNCHANGED <<call, job, polls, slept, doneSeen, display, printed, x, stn,
                   footer, response>>

\* lines 108-110
GchatCheck ==
    /\ pc = "gchat_check"
    /\ outcome' = IF IsFailure(response.status_code)
                  THEN [kind |-> "raised", type |-> "Exception",
                        value |-> <<"Error sending message: ">> \o response.text]
                  ELSE Returned(response.text)
    /\ pc' = "end"
    /\ UNCHANGED <<call, job, polls, slept, doneSeen, display, printed, x, stn,
                   footer, posts, response>>

\* ------------------------------------------------------------ the program

NoOutcome == [kind |-> "none"]

NoStn == [arg |-> <<>>, depth |-> 0]

NoResponse == [status_code |-> 0, text |-> <<>>]

Idle ==
    /\ job = NoJob
    /\ polls = 0
    /\ slept = 0
    /\ doneSeen = FALSE
    /\ display = ""
    /\ printed = <<>>
    /\ stn = NoStn
    /\ footer = <<>>
    /\ posts = <<>>
    /\ response = NoResponse
    /\ outcome = NoOutcome

Init ==
    /\ Idle
    /\ \/ call \in QCalls /\ pc = "q_submit" /\ x = None
       \/ call \in StnCalls /\ pc = "stn_start" /\ x = call.x
       \/ call \in NtsCalls /\ pc = "nts_start" /\ x = call.x
       \/ call \in CondenseCalls /\ pc = "condense_text" /\ x = None
       \/ call \in BackTicksCalls /\ pc = "back_ticks" /\ x = None
       \/ call \in GchatCalls /\ pc = "gchat_start" /\ x = None

Next ==
    \/ QSubmit
    \/ JobCompletes
    \/ QPollRunning
    \/ QSleep
    \/ QPollDone
    \/ QFail
    \/ QSucceed
    \/ StnEnter
    \/ StnNumeric
    \/ StnForce
    \/ StnReject
    \/ NtsStart
    \/ NtsFormat
    \/ condense_text
    \/ back_ticks
    \/ GchatStart
    \/ GetUserEmail
    \/ GetUserEmailFails
    \/ GchatPost
    \/ GchatPostFails
    \/ GchatCheck

Spec == Init /\ [][Next]_vars

\* The specification of q alone for the progress of the polling loop: the
\* interpreter keeps executing q's steps (weak fairness of QStep); nothing is
\* assumed of the service, which may never finish the job.
LiveInit == Idle /\ call \in QCalls /\ pc = "q_submit" /\ x = None

LiveNext ==
    \/ QSubmit
    \/ JobCompletesBriefly
    \/ QPollRunning
    \/ QSleep
    \/ QPollDone
    \/ QFail
    \/ QSucceed

FairSpec == LiveInit /\ [][LiveNext]_vars /\ WF_vars(QStep)

\* ------------------------------------------------------------- properties

Excerpts == SelectSeq(printed, LAMBDA e : e.kind = "excerpt")

SameRef(a, b) == a.tag = b.tag /\ (a.tag = "table" => a.id = b.id)

QEnded == call.fn = "q" /\ pc = "end"

\* the query of the call has n lines (an empty text is one empty line)
LineCount == IF call.query = <<>> THEN 1 ELSE Len(Split(call.query, NL))

\* C1: when the completed job reports errors, q raises a failure whose
\* message is the reported messages joined with newlines in their order, and
\* returns no result set; a first message without a "[line:column]" place
\* prints no excerpt and the failure is raised all the same.
C1_ErrorsRaised ==
    (call.fn = "q" /\ job.done /\ job.errors # <<>>) =>
        /\ outcome.kind # "returned"
        /\ pc = "end" =>
              /\ outcome.kind = "raised"
              /\ Split(outcome.value, NL)
                    = [i \in 1..Len(job.errors) |-> job.errors[i].message]
              /\ job.errors[1].message \in PlainMsgs => Excerpts = <<>>

C1_Witness ==
    /\ QEnded
    /\ Len(job.errors) = 2
    /\ job.errors[1].message \in PlainMsgs
    /\ outcome.kind = "raised"
    /\ Excerpts = <<>>

\* C2: q reads the job's errors, destination, statistics and rows only after
\* a done() call returned true; every sleep lasts 0.5 s (no backoff) and is
\* followed by another done() call, however many came before; once the job
\* is done q ends by returning or raising, and it never ends before.
C2_BlocksUntilDone ==
    /\ [](call.fn = "q" =>
            /\ pc \in {"q_finished", "end"} => doneSeen /\ job.done
            /\ outcome.kind # "none" => doneSeen
            /\ slept = SleepTenths * polls)
    /\ [][pc = "q_sleep" => pc' = "q_poll"]_<<pc, polls, slept>>
    /\ (call.fn = "q" /\ job.done) ~> (outcome.kind # "none")

C2_Witness ==
    /\ QEnded
    /\ polls = MaxPolls
    /\ slept = SleepTenths * MaxPolls
    /\ outcome.kind = "returned"

\* C3: for a first message holding "[L:C]" (C a 1-based column), the excerpt
\* is exactly the existing lines i with L-5 <= i <= L+5, once each, in
\* increasing order; line L alone is split, its first C-1 characters plain and
\* the rest highlighted.
C3_ExcerptWindow ==
    (QEnded /\ job.errors # <<>>) =>
    \A l \in 0..MaxLineRef, c \in 1..MaxColRef :
        (job.errors[1].message = LocMsg(l, c)) =>
            LET lo == Max(1, l - 5)
                hi == Min(LineCount, l + 5)
                ex == Excerpts
            IN  /\ Len(ex) = Max(0, hi - lo + 1)
                /\ \A j \in 1..Len(ex) :
                      LET i == lo + j - 1
                          line == IF call.query = <<>> THEN <<>> ELSE QueryLine(i)
                      IN  /\ ex[j].no = i
                          /\ ex[j].split = (i = l)
                          /\ ex[j].plain \o ex[j].red = line
                          /\ Len(ex[j].plain)
                                = (IF i = l THEN Min(c - 1, Len(line))
                                   ELSE Len(line))

C3_Witness ==
    /\ QEnded
    /\ call.query = QueryText(MaxQueryLines)
    /\ job.errors # <<>>
    /\ job.errors[1].message = LocMsg(12, 5)
    /\ Len(Excerpts) = 11
    /\ Excerpts[1].no = 7
    /\ Excerpts[11].no = 17
    /\ Excerpts[6].plain = <<"a", "b", "c", "d">>
    /\ Excerpts[6].red = <<"e">>

\* C7 as claimed: on success the destination reported is the job's
\* destination, the DDL target table only when the destination is null.
C7_DestinationPreferred ==
    (QEnded /\ outcome.kind = "returned") =>
        \E i \in DOMAIN printed :
            /\ printed[i].kind = "destination"
            /\ SameRef(printed[i].table,
                       IF job.destination.tag # "none" THEN job.destination
                       ELSE job.ddl_target_table)

\* C7 amended: on success the destination reported is the DDL target table
\* whenever the job has one, and the job's destination only when the DDL
\* target table is null.
C7_DdlTargetPreferred ==
    (QEnded /\ outcome.kind = "returned") =>
        \E i \in DOMAIN printed :
            /\ printed[i].kind = "destination"
            /\ SameRef(printed[i].table,
                       IF job.ddl_target_table.tag # "none"
                       THEN job.ddl_target_table
                       ELSE job.destination)
            /\ \A k \in DOMAIN printed :
                  printed[k].kind = "destination" => k = i

C7_Witness ==
    /\ QEnded
    /\ outcome.kind = "returned"
    /\ job.destination.tag = "table"
    /\ job.ddl_target_table.tag = "table"
    /\ \E i \in DOMAIN printed :
          printed[i].kind = "destination" /\ printed[i].table.id = "ddl"

NtsEnded == call.fn = "number_to_short_string" /\ pc = "end"

\* the call is number_to_short_string(v) for a number v > 0, and has returned
NtsOfPositive ==
    /\ NtsEnded
    /\ call.x.tag = "num"
    /\ call.x.num > 0
    /\ outcome.kind = "returned"

Last(s) == s[Len(s)]

Has(s, c) == \E i \in 1..Len(s) : s[i] = c

\* C4 as claimed: every x >= 1,000,000 gives a string ending with "m", every
\* 1,000 <= x < 1,000,000 one ending with "k", every 0 < x < 1,000 one with
\* neither suffix.
C4_SuffixAtEveryMagnitude ==
    NtsOfPositive =>
        IF AtLeast(call.x, Million) THEN Last(outcome.value) = "m"
        ELSE IF AtLeast(call.x, Thousand) THEN Last(outcome.value) = "k"
        ELSE ~Has(outcome.value, "k") /\ ~Has(outcome.value, "m")

\* C4 amended: the "m" suffix holds for 1,000,000 <= x < 1,000,000,000 only;
\* for x >= 1,000,000,000 the result is the unscaled value with no decimals
\* and no suffix; "k" and the no-suffix case are as claimed.
C4_SuffixBelowABillion ==
    NtsOfPositive =>
        IF AtLeast(call.x, Thousand * Million)
        THEN /\ IsDigit(Last(outcome.value))
             /\ Remove(Remove(outcome.value, ","), "+") = StrOfNat(call.x.num)
        ELSE IF AtLeast(call.x, Million) THEN Last(outcome.value) = "m"
        ELSE IF AtLeast(call.x, Thousand) THEN Last(outcome.value) = "k"
        ELSE ~Has(outcome.value, "k") /\ ~Has(outcome.value, "m")

C4_Witness ==
    /\ NtsOfPositive
    /\ call.x = Num(1234567890, 0)
    /\ outcome.value
         = <<"1", ",", "2", "3", "4", ",", "5", "6", "7", ",", "8", "9", "0">>

\* C5: number_to_short_string never raises; for a missing or non-numeric
\* input it returns the empty string or the input unchanged.
C5_NeverRaises ==
    call.fn = "number_to_short_string" =>
        /\ outcome.kind # "raised"
        /\ (pc = "end" /\ call.x.tag \in {"none", "nan"}) => outcome.value = <<>>
        /\ (pc = "end" /\ call.x.tag = "str"
                /\ ~NumericLooking(Remove(call.x.s, ","))) =>
              outcome.value \in {<<>>, call.x.s}

\* the characters of s that are digits, signs or dots
NumericChars(s) ==
    SelectSeq(s, LAMBDA ch : IsDigit(ch) \/ ch \in {"-", "+", "."})

\* C6: string_to_number(s, force=True) on a string that is not numeric-looking
\* strips every character but digits, signs and dots, and retries once: at
\* most one retry, and the stripped string's number is returned;
\* string_to_number("1,234") is 1234.0 and "abc" without force fails.
C6_ForceRetriesOnce ==
    (call.fn = "string_to_number" /\ call.x.tag = "str") =>
        /\ (call.force /\ ~NumericLooking(Remove(call.x.s, ","))) =>
              /\ stn.depth <= 2
              /\ (pc = "end" /\ NumericLooking(NumericChars(call.x.s))
                     /\ FloatParses(NumericChars(call.x.s))) =>
                    /\ outcome.kind = "returned"
                    /\ outcome.value = FloatOf(NumericChars(call.x.s))
        /\ (pc = "end" /\ call.x.s = <<"1", ",", "2", "3", "4">>) =>
              outcome = Returned(Num(1234, 0))
        /\ (pc = "end" /\ ~call.force /\ call.x.s = <<"a", "a", "a">>) =>
              outcome.kind = "raised"

GchatEnded == call.fn = "send_gchat" /\ pc = "end"

\* C8: send_gchat sends one POST and never a second; a response of status 400
\* raises a failure whose message ends with the response body, and a response
\* of any other status returns the response body unchanged.
C8_OnePostAnd400Raises ==
    call.fn = "send_gchat" =>
        /\ Len(posts) <= 1
        /\ pc \in {"gchat_check", "end"} /\ response # NoResponse =>
              Len(posts) = 1
        /\ (pc = "end" /\ response # NoResponse) =>
              IF response.status_code = 400
              THEN /\ outcome.kind = "raised"
                   /\ Len(outcome.value) > Len(response.text)
                   /\ SubSeq(outcome.value,
                             Len(outcome.value) - Len(response.text) + 1,
                             Len(outcome.value)) = response.text
              ELSE outcome = Returned(response.text)

C8_Witness ==
    /\ GchatEnded
    /\ response.status_code = 500
    /\ response.text = <<"{", "e", "}">>
    /\ outcome = Returned(response.text)
    /\ Len(posts) = 1

\* the text between the opening and the closing fence line
FencedBody(r) == SubSeq(r, 5, Len(r) - 4)

\* C9: the body that back_ticks puts between the fence lines never holds
\* three backquotes in a row, whatever runs of backquotes the text holds.
C9_NoTripleBackquote ==
    (call.fn = "back_ticks" /\ pc = "end") =>
        LET body == FencedBody(outcome.value)
        IN  \A i \in 1..(Len(body) - 2) :
                ~(body[i] = Tick /\ body[i + 1] = Tick /\ body[i + 2] = Tick)

CondenseEnded == call.fn = "condense_text" /\ pc = "end"

\* no newline is left and no two whitespace characters are adjacent
Collapsed(r) ==
    /\ ~Has(r, NL)
    /\ \A i \in 1..(Len(r) - 1) : ~(IsSpace(r[i]) /\ IsSpace(r[i + 1]))

\* C10 as claimed: the result has at most N characters, its whitespace runs
\* are collapsed, and a condensed form of at most N characters is returned
\* as it is.
C10_AtMostLimit ==
    CondenseEnded =>
        /\ Len(outcome.value) <= call.limit
        /\ Collapsed(outcome.value)
        /\ Len(Condensed(call.text)) <= call.limit =>
              outcome.value = Condensed(call.text)

\* C10 amended: the result has at most N + 3 characters: a condensed form
\* shorter than N characters is returned as it is, and one of N characters or
\* more is cut to its first N characters followed by "..."; whitespace runs
\* are collapsed.
C10_AtMostLimitPlusEllipsis ==
    CondenseEnded =>
        LET c == Condensed(call.text)
            r == outcome.value
        IN  /\ Len(r) <= call.limit + 3
            /\ Collapsed(r)
            /\ Len(c) < call.limit => r = c
            /\ Len(c) >= call.limit =>
                  /\ Len(r) = call.limit + 3
                  /\ SubSeq(r, 1, call.limit) = SubSeq(c, 1, call.limit)
                  /\ SubSeq(r, call.limit + 1, Len(r)) = <<".", ".", ".">>

C10_Witness ==
    /\ CondenseEnded
    /\ call.limit = 3
    /\ call.text = Str(<<"a", NL, NL, "a">>)
    /\ outcome.value = <<"a", " ", "|", ".", ".", ".">>

====
